---- MODULE Spec2Model ----
(***************************************************************************)
(* A model of @bnk/kv-store: the KeyValueStore engine (in-memory Map,      *)
(* validators, hooks, version counter, init/sync/createBackup) and its two *)
(* adapters (FileAdapter, SqliteAdapter).                                  *)
(*                                                                         *)
(* get/set/delete are synchronous: one action each.  init, sync and        *)
(* createBackup are async functions: each runs atomically from one await   *)
(* to the next, so each is a small process whose steps are the code        *)
(* between two awaits.                                                     *)
(***************************************************************************)
EXTENDS Integers, Sequences, FiniteSets, TLC

\* ------------------------------------------------------------------ bounds

\* the calls that make the history grow, over all stores: set calls that
\* return, delete calls that remove a key, createBackup calls that reach the
\* adapter, and stores constructed after the first
MaxOps == 2
\* the same, on a store without adapter
MaxMemOps == 3

\* ------------------------------------------------------ JavaScript values

Undefined == [t |-> "undefined", n |-> 0]
Num(i) == [t |-> "number", n |-> i]
Str(i) == [t |-> "string", n |-> i]
\* a Date object; DateV(i).toISOString() is the string Str(i)
DateV(i) == [t |-> "date", n |-> i]
\* an object that refers to itself (circular.self = circular)
Cyclic == [t |-> "cyclic", n |-> 0]
\* null: what a NULL column parses to
Null == [t |-> "null", n |-> 0]
\* no value at all: the unused field of a record of the model
NoValue == [t |-> "none", n |-> 0]

\* the values callers pass to set
Values == {Num(1), Undefined, DateV(7), Cyclic}

\* typeof v
TypeOf(v) ==
  CASE v.t = "undefined" -> "undefined"
    [] v.t = "number" -> "number"
    [] v.t = "string" -> "string"
    [] OTHER -> "object"

\* key arguments: the strings, and null (typeof null is "object")
StrKey(s) == [t |-> "string", s |-> s]
NullKey == [t |-> "object", s |-> "null"]
VersionKey == "__version__"
Keys == {"", "a"}
KeyArgs == {StrKey(s) : s \in Keys} \cup {NullKey}

\* JSON.stringify(v): a JSON text, undefined (no text) for undefined, or a
\* TypeError for a cyclic structure.  A Date serializes through toJSON to the
\* quoted ISO string.
JsonNone == [t |-> "nojson", n |-> 0]
JsonThrow == [t |-> "throw", n |-> 0]
Stringify(v) ==
  CASE v.t = "number" -> [t |-> "jnumber", n |-> v.n]
    [] v.t = "string" -> [t |-> "jstring", n |-> v.n]
    [] v.t = "date" -> [t |-> "jstring", n |-> v.n]
    [] v.t = "null" -> [t |-> "jnull", n |-> 0]
    [] v.t = "undefined" -> JsonNone
    [] OTHER -> JsonThrow

\* JSON.parse(text) of a text JSON.stringify produced
Parse(j) ==
  CASE j.t = "jnumber" -> Num(j.n)
    [] j.t = "jstring" -> Str(j.n)
    [] j.t = "jnull" -> Null
    [] OTHER -> NoValue

\* v is its own JSON round trip
RoundTrips(v) ==
  /\ Stringify(v) \notin {JsonNone, JsonThrow}
  /\ Parse(Stringify(v)) = v

\* ------------------------------------------------------------- validators

\* options.validator: absent, a type guard (throws unless the value is a
\* number, else returns it), or a coercing parser (returns 1 for whatever is
\* not a number)
Validators == {"none", "number", "coerce"}

ValidatorThrows(vd, v) == vd = "number" /\ TypeOf(v) # "number"

ValidatorResult(vd, v) ==
  IF vd = "coerce" /\ TypeOf(v) # "number" THEN Num(1) ELSE v

\* ------------------------------------------------ the Map (insertion order)

\* memoryMap is the sequence of its entries in insertion order
MapHas(m, k) == \E i \in 1..Len(m) : m[i].k = k

MapIndex(m, k) == CHOOSE i \in 1..Len(m) : m[i].k = k

\* Map.prototype.get: undefined for a missing key
MapGet(m, k) == IF MapHas(m, k) THEN m[MapIndex(m, k)].v ELSE Undefined

\* Map.prototype.set (and the table's INSERT OR REPLACE), were it to add an
\* entry whether the key is there or not
MapSetAppends(m, k, v) == Append(m, [k |-> k, v |-> v])

\* Map.prototype.set, were it to leave an existing entry as it is
MapSetKeepsOld(m, k, v) ==
  IF MapHas(m, k) THEN m ELSE Append(m, [k |-> k, v |-> v])

\* Map.prototype.set: an existing key keeps its place, a new one is appended
MapSet(m, k, v) ==
  IF MapHas(m, k)
    THEN [m EXCEPT ![MapIndex(m, k)] = [k |-> k, v |-> v]]
    ELSE Append(m, [k |-> k, v |-> v])

\* Map.prototype.delete
MapDelete(m, k) ==
  IF MapHas(m, k)
    THEN LET i == MapIndex(m, k) IN
         [j \in 1..(Len(m) - 1) |-> IF j < i THEN m[j] ELSE m[j + 1]]
    ELSE m

MapKeys(m) == {m[i].k : i \in 1..Len(m)}

\* ------------------------------------------------------------------ state

VARIABLES
  memoryMap,   \* KeyValueStore.memoryMap
  version,     \* KeyValueStore.version (-1: versioning disabled)
  adapter,     \* config.adapter: "none", "file", "sqlite", or "bare" (an
               \* object with the four KeyValueAdapter methods and nothing else)
  enableVersioning, \* config.enableVersioning
  hookCalls,   \* invocations of hooks.onUpdate / onDelete / onBackup so far
  hooks,       \* config.hooks: what the configured hooks do when invoked:
               \* "returns", "throws", or "rejects" (the promise they return)
  syncIntervalMs, \* config.syncIntervalMs is given
  syncInterval,   \* KeyValueStore.syncInterval: "undefined", or "set" (a timer id)
  timerOn,     \* the interval timer the constructor started is still running
  syncBy,      \* who started the sync() in flight: "caller" or "timer"
  ioFails,     \* the storage medium may fail a write
  logged,      \* hook failures this store has reported with console.error
  unhandled,   \* rejected promises of this store's hooks that nothing handles
  cache,       \* FileAdapter.cache of the store's adapter instance
  db,          \* SqliteAdapter.db of the store's adapter instance: "null" or "open"
  disk,        \* the adapter target: the JSON document, or the database table
  backups,     \* the backup files written so far
  initP,       \* the init() call in flight, if any
  syncP,       \* the sync() call in flight, if any
  backupP,     \* the createBackup() call in flight, if any
  syncQ,       \* a second sync() in flight, started while the first is suspended
  last,        \* the call that made the last step, with its outcome
  nStores,     \* stores constructed so far
  nOps,        \* the calls MaxOps bounds, so far
  nApplied,    \* set calls that returned and delete calls that removed a key,
               \* since construction or since init() last restored the version
  verBase,     \* the version at construction, or as init() last restored it
  nChanged,    \* set/delete calls since construction that changed memoryMap
  inited,      \* this store's init() has resolved
  synced       \* what the last sync() that ran undisturbed pushed, while the
               \* adapter target still holds it

storeVars == <<memoryMap, version, hookCalls, logged, unhandled>>
adapterVars == <<cache, db, disk, backups>>
procVars == <<initP, syncP, backupP, syncQ>>
configVars == <<adapter, enableVersioning, hooks, syncIntervalMs, syncInterval,
                timerOn, syncBy, ioFails>>
ghostVars == <<nStores, nOps, nApplied, verBase, nChanged, inited, synced>>
vars == <<memoryMap, version, adapter, enableVersioning, hookCalls, hooks,
          syncIntervalMs, syncInterval, timerOn, syncBy, ioFails,
          logged, unhandled, cache, db,
          disk, backups, initP, syncP, backupP, syncQ, last, nStores, nOps,
          nApplied,
          verBase, nChanged, inited, synced>>

\* an async call in flight: where it is suspended (pc), the Map iterator's
\* cursor (idx: the entries it has passed), the data it holds across the await
\* (data), the version it read (ver), whether memory has changed since it
\* started (clean), and the map as it was when the call started (snap, kept
\* for a sync() only)
Proc(pc, idx, data, ver, clean) ==
  [pc |-> pc, idx |-> idx, data |-> data, ver |-> ver, clean |-> clean,
   snap |-> <<>>]
Idle == Proc("idle", 0, <<>>, 0, TRUE)
NoSync == [valid |-> FALSE, map |-> <<>>, version |-> 0, store |-> 0,
           inited |-> FALSE, changed |-> 0]

\* a hook invocation: the hook's name, the key and value it is passed, and
\* what the store holds at that moment (its version, the value under the key)
Hook(name, key, val, ver, held) ==
  [name |-> name, key |-> key, val |-> val, ver |-> ver, held |-> held]
NoHook == Hook("none", "", NoValue, 0, NoValue)

\* a call and its outcome: out is "ok" (returned / resolved), "throw"
\* (threw / rejected) or "pending" (an async call that has not settled);
\* hook is the onUpdate / onDelete invocation the call made, if any
Call(op, key, val, vd, out, ret, err) ==
  [op |-> op, key |-> key, val |-> val, vd |-> vd, out |-> out, ret |-> ret,
   err |-> err, hook |-> NoHook]
Hooked(c, h) == [c EXCEPT !.hook = h]
NoKey == [t |-> "none", s |-> ""]
Async(op, out, err) == Call(op, NoKey, NoValue, "none", out, NoValue, err)

NoHookCalls == [update |-> 0, delete |-> 0, backup |-> 0]
\* the adapter target: whether it exists, the root of the JSON document
\* ("object"; "scalar": a number, string, boolean or null; "invalid": text
\* JSON.parse rejects), and the entries of an object root or the table's rows
Disk(exists, root, data) == [exists |-> exists, root |-> root, data |-> data]
NoDisk == Disk(FALSE, "object", <<>>)

\* ----------------------------------------------------------- construction

\* the constructor, were it to start the timer whenever syncIntervalMs is given
SyncIntervalSetAlways(ms, a) == IF ms THEN "set" ELSE "undefined"

\* if (config.syncIntervalMs && this.adapter) this.syncInterval = setInterval(...)
SyncIntervalSet(ms, a) == IF ms /\ a # "none" THEN "set" ELSE "undefined"

\* the version a constructor sets: enableVersioning ? 0 : -1
InitialVersion(ev) == IF ev THEN 0 ELSE -1

InitWith(adapters, behaviours, intervals, faults) ==
  /\ adapter \in adapters
  /\ hooks \in behaviours
  /\ syncIntervalMs \in intervals
  /\ syncInterval = SyncIntervalSet(syncIntervalMs, adapter)
  /\ timerOn = (syncInterval = "set")
  /\ syncBy = "caller"
  /\ ioFails \in faults
  /\ logged = 0
  /\ unhandled = 0
  /\ memoryMap = <<>>
  /\ enableVersioning \in BOOLEAN
  /\ version = InitialVersion(enableVersioning)
  /\ verBase = version
  /\ inited = FALSE
  /\ hookCalls = NoHookCalls
  /\ cache = <<>>
  /\ db = "null"
  /\ disk = NoDisk
  /\ backups = 0
  /\ initP = Idle
  /\ syncP = Idle
  /\ backupP = Idle
  /\ syncQ = Idle
  /\ last = Async("new", "ok", "")
  /\ nStores = 1
  /\ nOps = 0
  /\ nApplied = 0
  /\ nChanged = 0
  /\ synced = NoSync

Init == InitWith({"file", "sqlite"}, {"returns"}, {FALSE}, {FALSE})

\* the history may still grow
MayGrow == nOps < (IF adapter = "none" THEN MaxMemOps ELSE MaxOps)

NoneInFlight ==
  /\ initP.pc = "idle" /\ syncP.pc = "idle" /\ backupP.pc = "idle"
  /\ syncQ.pc = "idle"

\* new KeyValueStore({adapter, hooks, enableVersioning}) over a new adapter
\* instance (FileAdapter: cache = {}; SqliteAdapter: db = null) on the same
\* target, once the previous store has settled its calls
NewStore(ev) ==
  /\ MayGrow
  /\ NoneInFlight
  /\ nOps' = nOps + 1
  /\ nStores' = nStores + 1
  /\ memoryMap' = <<>>
  /\ enableVersioning' = ev
  /\ version' = InitialVersion(ev)
  /\ verBase' = version'
  /\ inited' = FALSE
  /\ hookCalls' = NoHookCalls
  /\ logged' = 0
  /\ unhandled' = 0
  /\ cache' = <<>>
  /\ db' = "null"
  /\ nApplied' = 0
  /\ nChanged' = 0
  /\ last' = Async("new", "ok", "")
  /\ UNCHANGED <<adapter, hooks, syncIntervalMs, syncInterval, timerOn, syncBy,
                 ioFails, disk, backups, procVars, synced>>

\* --------------------------------------------------------- get/set/delete

\* get, were it to return the stored value without running the validator
GetOutcomeRaw(m, key, vd) ==
  IF TypeOf(key) # "string"
    THEN [out |-> "throw", ret |-> NoValue, err |-> "Key must be a string"]
    ELSE [out |-> "ok", ret |-> MapGet(m, key.s), err |-> ""]

\* what get returns or throws
GetOutcome(m, key, vd) ==
  IF TypeOf(key) # "string"
    THEN [out |-> "throw", ret |-> NoValue, err |-> "Key must be a string"]
    ELSE LET val == MapGet(m, key.s) IN
         IF val = Undefined \/ vd = "none"
           THEN [out |-> "ok", ret |-> val, err |-> ""]
           ELSE IF ValidatorThrows(vd, val)
             THEN [out |-> "throw", ret |-> NoValue, err |-> "validator"]
             ELSE [out |-> "ok", ret |-> ValidatorResult(vd, val), err |-> ""]

\* KeyValueStore.get(key, {validator})
Get(key, vd) ==
  /\ LET r == GetOutcome(memoryMap, key, vd) IN
       last' = Call("get", key, NoValue, vd, r.out, r.ret, r.err)
  /\ UNCHANGED <<storeVars, adapterVars, procVars, configVars, ghostVars>>

\* the behaviours of the configured hooks
HookBehaviours == {"returns", "throws", "rejects"}

\* a hook call site, were it to have no try/catch
HookDispatchNoCatch(h) ==
  CASE h = "throws" -> "escapes"
    [] h = "rejects" -> "unhandled"
    [] OTHER -> "done"

\* try { void this.hooks.onX?.(...) } catch (err) { console.error(...) } with
\* a hook that behaves as h: a synchronous throw is caught and logged; a
\* promise is discarded by void, so its rejection has no handler
HookDispatch(h) ==
  CASE h = "throws" -> "logged"
    [] h = "rejects" -> "unhandled"
    [] OTHER -> "done"

\* console.error reports, and rejections without handler, after n hook calls
LoggedAfter(n) == IF HookDispatch(hooks) = "logged" THEN logged + n ELSE logged
UnhandledAfter(n) ==
  IF HookDispatch(hooks) = "unhandled" THEN unhandled + n ELSE unhandled

\* the version, were a mutation to count twice
BumpVersionTwice(v) == IF v >= 0 THEN v + 2 ELSE v

\* the version after a mutation: this.version++ if versioning is enabled
BumpVersion(v) == IF v >= 0 THEN v + 1 ELSE v

\* a sync() in flight has seen memory change
Disturbed(p) == [p EXCEPT !.clean = FALSE]

\* set and delete, were they to empty the adapter target
TargetDroppedByMutation(d) == NoDisk

\* the adapter target after set or delete: neither calls the adapter
TargetAfterMutation(d) == d

\* set, were it to store the value without running the validator
SetProgramNoValidate == <<"key", "probe", "store", "version", "hook">>

\* set, were it to invoke onUpdate before the map and the version change
SetProgramHookBeforeStore == <<"key", "probe", "validate", "hook", "store", "version">>

\* set, were it to leave the version alone
SetProgramNoVersion == <<"key", "probe", "validate", "store", "hook">>

\* set, were it to store the value before the validator has seen it
SetProgramStoreFirst == <<"key", "probe", "store", "validate", "version", "hook">>

\* set, were it to try JSON.stringify on the value only at the end
SetProgramProbeLast == <<"key", "validate", "store", "version", "hook", "probe">>

\* set, were it to invoke onUpdate before anything else
SetProgramHookFirst == <<"hook", "key", "probe", "validate", "store", "version">>

\* the statements of set, in the order the code runs them
SetProgram == <<"key", "probe", "validate", "store", "version", "hook">>

\* set, were it to keep a JSON copy of the value instead of the value
SetStatementJsonCopy(s, r, key, value, vd) ==
  IF r.err # "" THEN r
  ELSE CASE s = "key" ->
              IF TypeOf(key) # "string"
                THEN [r EXCEPT !.err = "Key must be a string"] ELSE r
         [] s = "probe" ->
              IF Stringify(value) = JsonThrow
                THEN [r EXCEPT !.err = "Value must be JSON serializable"] ELSE r
         [] s = "validate" ->
              IF vd = "none" THEN [r EXCEPT !.val = value]
              ELSE IF ValidatorThrows(vd, value) THEN [r EXCEPT !.err = "validator"]
              ELSE [r EXCEPT !.val = ValidatorResult(vd, value)]
         [] s = "store" ->
              [r EXCEPT !.m = MapSet(r.m, key.s,
                                     IF Stringify(r.val) = JsonNone THEN r.val
                                     ELSE Parse(Stringify(r.val)))]
         [] s = "version" -> [r EXCEPT !.ver = BumpVersion(r.ver)]
         [] s = "hook" ->
              LET h == Hook("update", key.s, r.val, r.ver, MapGet(r.m, key.s)) IN
              IF HookDispatch(hooks) = "escapes"
                THEN [r EXCEPT !.hooks.update = @ + 1, !.hook = h, !.err = "hook"]
                ELSE [r EXCEPT !.hooks.update = @ + 1, !.hook = h]

\* one statement of set on the running state r (the map, the version, the hook
\* invocations, the value to store, the error thrown so far): a statement
\* after a throw does not run
SetStatement(s, r, key, value, vd) ==
  IF r.err # "" THEN r
  ELSE CASE s = "key" ->
              IF TypeOf(key) # "string"
                THEN [r EXCEPT !.err = "Key must be a string"] ELSE r
         [] s = "probe" ->
              IF Stringify(value) = JsonThrow
                THEN [r EXCEPT !.err = "Value must be JSON serializable"] ELSE r
         [] s = "validate" ->
              IF vd = "none" THEN [r EXCEPT !.val = value]
              ELSE IF ValidatorThrows(vd, value) THEN [r EXCEPT !.err = "validator"]
              ELSE [r EXCEPT !.val = ValidatorResult(vd, value)]
         [] s = "store" -> [r EXCEPT !.m = MapSet(r.m, key.s, r.val)]
         [] s = "version" -> [r EXCEPT !.ver = BumpVersion(r.ver)]
         [] s = "hook" ->
              LET h == Hook("update", key.s, r.val, r.ver, MapGet(r.m, key.s)) IN
              IF HookDispatch(hooks) = "escapes"
                THEN [r EXCEPT !.hooks.update = @ + 1, !.hook = h, !.err = "hook"]
                ELSE [r EXCEPT !.hooks.update = @ + 1, !.hook = h]

\* set run on the store's state
SetOutcome(m, ver, calls, key, value, vd) ==
  LET RECURSIVE Run(_, _)
      Run(r, i) ==
        IF i > Len(SetProgram) THEN r
        ELSE Run(SetStatement(SetProgram[i], r, key, value, vd), i + 1)
  IN Run([m |-> m, ver |-> ver, hooks |-> calls, val |-> value, err |-> "",
          hook |-> NoHook], 1)

\* KeyValueStore.set(key, value, {validator})
Set(key, value, vd) ==
  LET r == SetOutcome(memoryMap, version, hookCalls, key, value, vd) IN
  /\ r.err = "" => MayGrow
  /\ memoryMap' = r.m
  /\ version' = r.ver
  /\ hookCalls' = r.hooks
  /\ logged' = LoggedAfter(r.hooks.update - hookCalls.update)
  /\ unhandled' = UnhandledAfter(r.hooks.update - hookCalls.update)
  /\ last' = Hooked(IF r.err = ""
                      THEN Call("set", key, value, vd, "ok", r.val, "")
                      ELSE Call("set", key, value, vd, "throw", NoValue, r.err),
                    r.hook)
  /\ syncP' = IF r.m # memoryMap \/ r.ver # version THEN Disturbed(syncP) ELSE syncP
  /\ nOps' = IF r.err = "" THEN nOps + 1 ELSE nOps
  /\ nApplied' = IF r.err = "" THEN nApplied + 1 ELSE nApplied
  /\ nChanged' = IF r.m # memoryMap THEN nChanged + 1 ELSE nChanged
  /\ disk' = TargetAfterMutation(disk)
  /\ UNCHANGED <<cache, db, backups, initP, backupP, syncQ, configVars, nStores,
                 verBase, inited, synced>>

\* store.get(key) ?? 0
GetOrZero(m, key) ==
  LET g == GetOutcome(m, key, "none") IN
  IF g.ret \in {Undefined, Null} THEN 0 ELSE g.ret.n

\* a task that reads the counter and writes it back plus one, without
\* suspending in between:
\* const currentVal = store.get(key) ?? 0; store.set(key, currentVal + 1)
IncrementTask(key) == Set(key, Num(GetOrZero(memoryMap, key) + 1), "none")

\* delete, were it to skip the has() test
RemovesAlways(m, k) == TRUE

\* if (this.memoryMap.has(key)): delete removes the key
Removes(m, k) == MapHas(m, k)

\* the cursor of a live Map iterator after the entry at position i is deleted:
\* the entries it has passed are one fewer if the deleted one was among them
CursorAfterDelete(idx, i) == IF i <= idx THEN idx - 1 ELSE idx

\* a sync() in flight after delete(k): its iterator follows the Map
SyncAfterDelete(p, m, k) ==
  IF MapHas(m, k)
    THEN [Disturbed(p) EXCEPT !.idx = CursorAfterDelete(@, MapIndex(m, k))]
    ELSE p

\* KeyValueStore.delete(key)
Delete(key) ==
  /\ disk' = TargetAfterMutation(disk)
  /\ UNCHANGED <<cache, db, backups, initP, backupP, syncQ, configVars, nStores,
                 verBase, inited, synced>>
  /\ IF TypeOf(key) # "string"
       THEN /\ last' = Call("delete", key, NoValue, "none", "throw", NoValue, "Key must be a string")
            /\ UNCHANGED <<storeVars, syncP, nOps, nApplied, nChanged>>
       ELSE /\ last' =
                 Hooked(IF Removes(memoryMap, key.s) /\ HookDispatch(hooks) = "escapes"
                          THEN Call("delete", key, NoValue, "none", "throw", NoValue, "hook")
                          ELSE Call("delete", key, NoValue, "none", "ok", Undefined, ""),
                        IF Removes(memoryMap, key.s)
                          THEN Hook("delete", key.s, NoValue, BumpVersion(version),
                                    MapGet(MapDelete(memoryMap, key.s), key.s))
                          ELSE NoHook)
            /\ IF Removes(memoryMap, key.s)
                 THEN /\ MayGrow
                      /\ memoryMap' = MapDelete(memoryMap, key.s)
                      /\ version' = BumpVersion(version)
                      /\ hookCalls' = [hookCalls EXCEPT !.delete = @ + 1]
                      /\ logged' = LoggedAfter(1)
                      /\ unhandled' = UnhandledAfter(1)
                      /\ syncP' = SyncAfterDelete(syncP, memoryMap, key.s)
                      /\ nOps' = nOps + 1
                 ELSE UNCHANGED <<storeVars, syncP, nOps>>
            /\ nApplied' = IF MapHas(memoryMap, key.s) THEN nApplied + 1 ELSE nApplied
            /\ nChanged' = IF memoryMap' # memoryMap THEN nChanged + 1 ELSE nChanged

\* ------------------------------------------------------------ the adapters

\* JSON.stringify(this.cache, null, 2): the document FileAdapter.writeFile
\* writes; a property whose value is undefined is left out
FileContent(c) ==
  LET RECURSIVE Doc(_)
      Doc(i) ==
        IF i > Len(c) THEN <<>>
        ELSE IF Stringify(c[i].v) = JsonNone THEN Doc(i + 1)
        ELSE <<[k |-> c[i].k, v |-> Stringify(c[i].v)]>> \o Doc(i + 1)
  IN Doc(1)

\* JSON.parse of each stored text: FileAdapter.init reading the document,
\* SqliteAdapter.all reading the rows
ParseAll(d) == [i \in 1..Len(d) |-> [k |-> d[i].k, v |-> Parse(d[i].v)]]

\* how bun:sqlite binds the parameter JSON.stringify(value): the JSON text, or,
\* for undefined, either NULL or a TypeError
BindOutcomes(v) == IF Stringify(v) = JsonNone THEN {"null", "throw"} ELSE {"text"}

BoundText(v, bind) == IF bind = "null" THEN Stringify(Null) ELSE Stringify(v)

\* the target after a write; the ghost synced is dropped when the target changes
WriteDisk(data) ==
  /\ disk' = Disk(TRUE, "object", data)
  /\ synced' = IF disk' # disk THEN NoSync ELSE synced

\* what the adapter's get(k) resolves to: FileAdapter.get returns cache[k];
\* SqliteAdapter.get parses the row's text, or returns undefined without a row
AdapterGet(k) ==
  IF adapter = "sqlite"
    THEN IF MapHas(disk.data, k) THEN Parse(MapGet(disk.data, k)) ELSE Undefined
    ELSE MapGet(cache, k)

\* the JSON text the target (the document, the table) holds for k
TargetText(k) == IF MapHas(disk.data, k) THEN MapGet(disk.data, k) ELSE JsonNone

\* SqliteAdapter.init, were its catch block to leave this.db as it is
DbKeptAfterFailedInit(d) == d

\* SqliteAdapter.init when new Database(path) or the CREATE TABLE throws: the
\* catch block sets this.db = null
DbAfterFailedInit(d) == "null"

\* what ensureInitialized throws when this.db is null
NotInitialized == "SQLite adapter not initialized. Call init() first."

\* what a call on the SqliteAdapter leaves alone
SqliteFrame ==
  UNCHANGED <<storeVars, configVars, cache, procVars, nStores, nApplied,
              verBase, nChanged, inited>>

\* SqliteAdapter.init() called on the adapter
SqliteInit ==
  /\ adapter = "sqlite"
  /\ SqliteFrame
  /\ UNCHANGED <<backups, nOps>>
  /\ \E opens \in BOOLEAN :
       IF opens
         THEN /\ db' = "open"
              /\ WriteDisk(disk.data)
              /\ last' = Async("adapter.init", "ok", "")
         ELSE /\ db' = DbAfterFailedInit(db)
              /\ last' = Async("adapter.init", "throw", "unable to open database file")
              /\ UNCHANGED <<disk, synced>>

\* SqliteAdapter.get(key) called on the adapter
SqliteGet(k) ==
  /\ adapter = "sqlite"
  /\ SqliteFrame
  /\ UNCHANGED <<db, disk, synced, backups, nOps>>
  /\ last' = IF db = "null"
               THEN Call("adapter.get", StrKey(k), NoValue, "none", "throw", NoValue, NotInitialized)
               ELSE Call("adapter.get", StrKey(k), NoValue, "none", "ok", AdapterGet(k), "")

\* SqliteAdapter.set(key, value) called on the adapter
SqliteSet(k, v) ==
  /\ adapter = "sqlite"
  /\ SqliteFrame
  /\ UNCHANGED <<db, backups, nOps>>
  /\ IF db = "null"
       THEN /\ last' = Call("adapter.set", StrKey(k), v, "none", "throw", NoValue, NotInitialized)
            /\ UNCHANGED <<disk, synced>>
       ELSE \E bind \in BindOutcomes(v) :
              IF bind = "throw"
                THEN /\ last' = Call("adapter.set", StrKey(k), v, "none", "throw", NoValue, "TypeError")
                     /\ UNCHANGED <<disk, synced>>
                ELSE /\ last' = Call("adapter.set", StrKey(k), v, "none", "ok", Undefined, "")
                     /\ WriteDisk(MapSet(disk.data, k, BoundText(v, bind)))

\* SqliteAdapter.delete(key) called on the adapter
SqliteDelete(k) ==
  /\ adapter = "sqlite"
  /\ SqliteFrame
  /\ UNCHANGED <<db, backups, nOps>>
  /\ IF db = "null"
       THEN /\ last' = Call("adapter.delete", StrKey(k), NoValue, "none", "throw", NoValue, NotInitialized)
            /\ UNCHANGED <<disk, synced>>
       ELSE /\ last' = Call("adapter.delete", StrKey(k), NoValue, "none", "ok", Undefined, "")
            /\ WriteDisk(MapDelete(disk.data, k))

\* SqliteAdapter.all() called on the adapter: it resolves to the parsed rows
SqliteAll ==
  /\ adapter = "sqlite"
  /\ SqliteFrame
  /\ UNCHANGED <<db, disk, synced, backups, nOps>>
  /\ last' = IF db = "null"
               THEN Async("adapter.all", "throw", NotInitialized)
               ELSE Call("adapter.all", NoKey, NoValue, "none", "ok", ParseAll(disk.data), "")

\* SqliteAdapter.backup() called on the adapter: the database file is copied
SqliteBackup ==
  /\ adapter = "sqlite"
  /\ SqliteFrame
  /\ UNCHANGED <<db, disk, synced>>
  /\ IF db = "null"
       THEN /\ last' = Async("adapter.backup", "throw", NotInitialized)
            /\ UNCHANGED <<backups, nOps>>
       ELSE /\ MayGrow
            /\ nOps' = nOps + 1
            /\ backups' = backups + 1
            /\ last' = Async("adapter.backup", "ok", "")

\* ------------------------------------------------------------------ sync()

\* the loop, were it to start one entry too far
NextEntryOffByOne(m, idx) ==
  LET rest == {j \in (idx + 2)..Len(m) : m[j].k # VersionKey} IN
  IF rest = {} THEN 0 ELSE CHOOSE j \in rest : \A i \in rest : j <= i

\* the loop, were it to push the entry under "__version__" like any other
NextEntryNoSkip(m, idx) == IF idx + 1 <= Len(m) THEN idx + 1 ELSE 0

\* the next entry the Map iterator yields that is not the reserved key: the
\* loop passes "__version__" without awaiting; 0 when the iterator is done
NextEntry(m, idx) ==
  LET rest == {j \in (idx + 1)..Len(m) : m[j].k # VersionKey} IN
  IF rest = {} THEN 0 ELSE CHOOSE j \in rest : \A i \in rest : j <= i

\* the writes the storage medium may answer a write with
WriteOutcomes == IF ioFails THEN {"ok", "fail"} ELSE {"ok"}

\* how a step of the sync() in flight shows: a sync() the caller started
\* settles for the caller; the timer's callback is () => { void this.sync() },
\* so the rejection of a sync() the timer started has no handler
SyncLast(out, err) ==
  IF syncBy' = "timer"
    THEN Async("tick", IF out = "throw" THEN "unhandled" ELSE out, err)
    ELSE Async("sync", out, err)

\* sync(), were it to catch what adapter.set rejects with
SyncSwallows(err) ==
  /\ syncP' = Idle
  /\ last' = SyncLast("ok", "")
  /\ UNCHANGED <<cache, disk, synced>>

\* await this.adapter.set(...) when the adapter rejects with err: nothing
\* catches it, sync() rejects with the same error and writes no more
SyncRejects(err) ==
  /\ syncP' = Idle
  /\ last' = SyncLast("throw", err)
  /\ UNCHANGED <<cache, disk, synced>>

\* the sync() in flight after one more await: it started at the version and
\* the map of the moment when no sync() was in flight
SyncProc(pc, idx, data, clean) ==
  [Proc(pc, idx, data, IF syncP.pc = "idle" THEN version ELSE syncP.ver, clean)
     EXCEPT !.snap = IF syncP.pc = "idle" THEN memoryMap ELSE syncP.snap]

\* await this.adapter.set(k, v), with the iterator at idx: SqliteAdapter.set
\* runs to its end (ensureInitialized, the upsert); FileAdapter.set updates the
\* cache and suspends in writeFile with the document it serialized
AdapterSetFromSync(k, v, idx, clean) ==
  IF adapter = "sqlite"
    THEN IF db = "null"
      THEN SyncRejects("SQLite adapter not initialized. Call init() first.")
      ELSE \E bind \in BindOutcomes(v), w \in WriteOutcomes :
             IF bind = "throw"
               THEN SyncRejects("TypeError")
               ELSE IF w = "fail"
                 THEN SyncRejects("AdapterIO")
                 ELSE /\ WriteDisk(MapSet(disk.data, k, BoundText(v, bind)))
                      /\ syncP' = SyncProc("ready", idx, <<>>, clean)
                      /\ last' = SyncLast("pending", "")
                      /\ UNCHANGED cache
    ELSE /\ cache' = MapSet(cache, k, v)
         /\ syncP' = SyncProc("io", idx, FileContent(cache'), clean)
         /\ last' = SyncLast("pending", "")
         /\ UNCHANGED <<disk, synced>>

\* the for..of loop from the iterator's cursor to its next await, or to the end
SyncLoop(idx, clean) ==
  LET j == NextEntry(memoryMap, idx) IN
  IF j = 0
    THEN /\ syncP' = Idle
         /\ last' = SyncLast("ok", "")
         /\ synced' = IF clean
                        THEN [valid |-> TRUE, map |-> memoryMap,
                              version |-> version, store |-> nStores,
                              inited |-> inited, changed |-> nChanged]
                        ELSE synced
         /\ UNCHANGED <<cache, disk>>
    ELSE AdapterSetFromSync(memoryMap[j].k, memoryMap[j].v, j, clean)

\* sync() starts, called by the caller or by the timer: it runs to its first
\* await
SyncStart(by) ==
  /\ NoneInFlight
  /\ adapter # "bare"
  /\ syncBy' = by
  /\ UNCHANGED <<storeVars, adapter, enableVersioning, hooks, syncIntervalMs,
                 syncInterval, timerOn, ioFails, db, backups, initP, backupP, syncQ,
                 nStores, nOps, nApplied, verBase, nChanged, inited>>
  /\ IF adapter = "none"
       THEN /\ last' = SyncLast("ok", "")
            /\ UNCHANGED <<cache, disk, syncP, synced>>
       ELSE IF version >= 0
         THEN AdapterSetFromSync(VersionKey, Num(version), 0, TRUE)
         ELSE SyncLoop(0, TRUE)

\* KeyValueStore.sync() is called
SyncCall == SyncStart("caller")

\* the interval timer fires: () => { void this.sync() }
TimerTick ==
  /\ timerOn
  /\ SyncStart("timer")

\* dispose(), were it to leave the timer running
TimerKeptAfterDispose(si, on) == on

\* if (this.syncInterval) clearInterval(this.syncInterval)
TimerAfterDispose(si, on) == IF si = "set" THEN FALSE ELSE on

\* KeyValueStore.dispose(): clearInterval(this.syncInterval) if it is set; the
\* field keeps the id
Dispose ==
  /\ timerOn' = TimerAfterDispose(syncInterval, timerOn)
  /\ last' = Async("dispose", "ok", "")
  /\ UNCHANGED <<storeVars, adapter, enableVersioning, hooks, syncIntervalMs,
                 syncInterval, syncBy, ioFails, adapterVars, procVars, ghostVars>>

\* Bun.write of the document FileAdapter.writeFile serialized settles
SyncWriteDone ==
  /\ syncP.pc = "io"
  /\ syncBy' = syncBy
  /\ \E w \in WriteOutcomes :
       IF w = "fail"
         THEN SyncRejects("AdapterIO")
         ELSE /\ WriteDisk(syncP.data)
              /\ syncP' = [syncP EXCEPT !.pc = "ready", !.data = <<>>]
              /\ last' = SyncLast("pending", "")
  /\ UNCHANGED <<storeVars, configVars, cache, db, backups, initP, backupP, syncQ,
                 nStores, nOps, nApplied, verBase, nChanged, inited>>

\* sync() resumes after await this.adapter.set(...)
SyncResume ==
  /\ syncP.pc = "ready"
  /\ syncBy' = syncBy
  /\ SyncLoop(syncP.idx, syncP.clean)
  /\ UNCHANGED <<storeVars, configVars, db, backups, initP, backupP, syncQ, nStores,
                 nOps, nApplied, verBase, nChanged, inited>>

\* ------------------------------------------------- a second sync() in flight

\* how a step of the second sync() shows: the timer started it, so nothing
\* handles its rejection
OverlapLast(out, err) ==
  Async("overlap", IF out = "throw" THEN "unhandled" ELSE out, err)

\* await this.adapter.set(...) rejects in the second sync()
OverlapRejects(err) ==
  /\ syncQ' = Idle
  /\ last' = OverlapLast("throw", err)
  /\ UNCHANGED <<cache, disk, synced>>

\* Bun.write in the second sync(), were the document it serialized to land
\* without the keys the cache got since
OverlapWriteLosesKeys(data) == IF Len(data) > 0 THEN <<data[1]>> ELSE data

\* await Bun.write(this.filePath, JSON.stringify(this.cache, null, 2)): the
\* whole document that FileAdapter.writeFile serialized replaces the file
OverlapWrite(data) == data

\* await this.adapter.set(k, v) in the second sync(), with its iterator at
\* idx: the same adapter object, so the same cache and the same database
OverlapSet(k, v, idx) ==
  IF adapter = "sqlite"
    THEN IF db = "null"
      THEN OverlapRejects("SQLite adapter not initialized. Call init() first.")
      ELSE \E bind \in BindOutcomes(v), w \in WriteOutcomes :
             IF bind = "throw"
               THEN OverlapRejects("TypeError")
               ELSE IF w = "fail"
                 THEN OverlapRejects("AdapterIO")
                 ELSE /\ WriteDisk(MapSet(disk.data, k, BoundText(v, bind)))
                      /\ syncQ' = Proc("ready", idx, <<>>, version, TRUE)
                      /\ last' = OverlapLast("pending", "")
                      /\ UNCHANGED cache
    ELSE /\ cache' = MapSet(cache, k, v)
         /\ syncQ' = Proc("io", idx, FileContent(cache'), version, TRUE)
         /\ last' = OverlapLast("pending", "")
         /\ UNCHANGED <<disk, synced>>

\* the for..of loop of the second sync(), from its own iterator's cursor
OverlapLoop(idx) ==
  LET j == NextEntry(memoryMap, idx) IN
  IF j = 0
    THEN /\ syncQ' = Idle
         /\ last' = OverlapLast("ok", "")
         /\ UNCHANGED <<cache, disk, synced>>
    ELSE OverlapSet(memoryMap[j].k, memoryMap[j].v, j)

\* the interval timer fires while a sync() is suspended in an await: sync()
\* has no guard against re-entry, so a second one starts and runs to its
\* first await
OverlapTick ==
  /\ timerOn
  /\ syncP.pc # "idle" /\ syncQ.pc = "idle"
  /\ initP.pc = "idle" /\ backupP.pc = "idle"
  /\ IF version >= 0
       THEN OverlapSet(VersionKey, Num(version), 0)
       ELSE OverlapLoop(0)
  /\ UNCHANGED <<storeVars, configVars, db, backups, initP, syncP, backupP,
                 nStores, nOps, nApplied, verBase, nChanged, inited>>

\* Bun.write of the document the second sync() serialized settles
OverlapWriteDone ==
  /\ syncQ.pc = "io"
  /\ \E w \in WriteOutcomes :
       IF w = "fail"
         THEN OverlapRejects("AdapterIO")
         ELSE /\ WriteDisk(OverlapWrite(syncQ.data))
              /\ syncQ' = [syncQ EXCEPT !.pc = "ready", !.data = <<>>]
              /\ last' = OverlapLast("pending", "")
  /\ UNCHANGED <<storeVars, configVars, cache, db, backups, initP, syncP,
                 backupP, nStores, nOps, nApplied, verBase, nChanged, inited>>

\* the second sync() resumes after await this.adapter.set(...)
OverlapResume ==
  /\ syncQ.pc = "ready"
  /\ OverlapLoop(syncQ.idx)
  /\ UNCHANGED <<storeVars, configVars, db, backups, initP, syncP, backupP,
                 nStores, nOps, nApplied, verBase, nChanged, inited>>

\* ------------------------------------------------------------------ init()

\* init(), were it to catch what adapter.init() rejects with
AwaitAdapterInitSwallows(err) == Async("init", "ok", "")

\* await this.adapter.init() when the adapter rejects with err: nothing
\* catches it, init() rejects with the same error
AwaitAdapterInit(err) == Async("init", "throw", err)

\* KeyValueStore.init() is called: it runs into this.adapter.init().
\* SqliteAdapter.init opens the database and creates the table, or fails and
\* leaves db null; FileAdapter.init suspends reading the document.
InitCall ==
  /\ NoneInFlight
  /\ adapter # "bare"
  /\ UNCHANGED <<storeVars, configVars, cache, backups, syncP, backupP, syncQ, nStores,
                 nOps, nApplied, verBase, nChanged, inited>>
  /\ CASE adapter = "none" ->
            /\ last' = Async("init", "ok", "")
            /\ UNCHANGED <<db, disk, initP, synced>>
       [] adapter = "sqlite" ->
            \E opens \in BOOLEAN :
              IF opens
                THEN /\ db' = "open"
                     /\ WriteDisk(disk.data)
                     /\ initP' = Proc("adapter_init", 0, <<>>, 0, TRUE)
                     /\ last' = Async("init", "pending", "")
                ELSE /\ db' = DbAfterFailedInit(db)
                     /\ initP' = Idle
                     /\ last' = AwaitAdapterInit("unable to open database file")
                     /\ UNCHANGED <<disk, synced>>
       [] adapter = "file" ->
            /\ initP' = Proc("read", 0, <<>>, 0, TRUE)
            /\ last' = Async("init", "pending", "")
            /\ UNCHANGED <<db, disk, synced>>

\* FileAdapter.init: what becomes of the document read
\* "catch": no file, or JSON.parse throws: the catch block empties the cache
\*    and writes it;
\* "reset": the root is not an object: the cache is emptied, nothing written;
\* "load": the cache is the parsed document
FileInitBranch(d) ==
  CASE ~d.exists \/ d.root = "invalid" -> "catch"
    [] d.root = "scalar" -> "reset"
    [] OTHER -> "load"

\* FileAdapter.init: Bun.file(path).text() settles.  The document parses into
\* the cache, or the cache is emptied, and in the catch block writeFile
\* suspends.
InitFileRead ==
  /\ initP.pc = "read"
  /\ CASE FileInitBranch(disk) = "load" ->
            /\ cache' = ParseAll(disk.data)
            /\ initP' = Proc("adapter_init", 0, <<>>, 0, TRUE)
       [] FileInitBranch(disk) = "reset" ->
            /\ cache' = <<>>
            /\ initP' = Proc("adapter_init", 0, <<>>, 0, TRUE)
       [] OTHER ->
            /\ cache' = <<>>
            /\ initP' = Proc("write", 0, FileContent(<<>>), 0, TRUE)
  /\ last' = Async("init", "pending", "")
  /\ UNCHANGED <<storeVars, configVars, db, disk, backups, syncP, backupP, syncQ, ghostVars>>

\* FileAdapter.init: the write of the empty document completes
InitFileWrite ==
  /\ initP.pc = "write"
  /\ WriteDisk(initP.data)
  /\ initP' = Proc("adapter_init", 0, <<>>, 0, TRUE)
  /\ last' = Async("init", "pending", "")
  /\ UNCHANGED <<storeVars, configVars, cache, db, backups, syncP, backupP, syncQ,
                 nStores, nOps, nApplied, verBase, nChanged, inited>>

\* the documents a FileAdapter may find at filePath
Documents ==
  {Disk(TRUE, "invalid", <<>>), Disk(TRUE, "scalar", <<>>),
   Disk(TRUE, "object", <<>>),
   Disk(TRUE, "object", <<[k |-> "a", v |-> Stringify(Num(1))]>>)}

\* something other than the adapter leaves document d at filePath
PutDocument(d) ==
  /\ adapter = "file"
  /\ NoneInFlight
  /\ disk' = d
  /\ synced' = IF disk' # disk THEN NoSync ELSE synced
  /\ last' = Async("document", "ok", "")
  /\ UNCHANGED <<storeVars, configVars, cache, db, backups, procVars, nStores,
                 nOps, nApplied, verBase, nChanged, inited>>

\* init() resumes after await this.adapter.init() and calls this.adapter.all():
\* SqliteAdapter.all parses the rows, FileAdapter.all copies the cache
InitAll ==
  /\ initP.pc = "adapter_init"
  /\ IF adapter = "sqlite" /\ db = "null"
       THEN /\ initP' = Idle
            /\ last' = Async("init", "throw", "SQLite adapter not initialized. Call init() first.")
       ELSE /\ initP' = Proc("all", 0,
                             IF adapter = "sqlite" THEN ParseAll(disk.data) ELSE cache,
                             0, TRUE)
            /\ last' = Async("init", "pending", "")
  /\ UNCHANGED <<storeVars, configVars, adapterVars, syncP, backupP, syncQ, ghostVars>>

\* init(), were it to replace the map by what it loads
LoadIntoCleared(m, loaded) == loaded

\* init(), were it to load no entry
LoadIntoNothing(m, loaded) == m

\* for (const [k, v] of Object.entries(loadedData)) this.memoryMap.set(k, v)
LoadInto(m, loaded) ==
  LET RECURSIVE Load(_, _)
      Load(mm, i) ==
        IF i > Len(loaded) THEN mm
        ELSE Load(MapSet(mm, loaded[i].k, loaded[i].v), i + 1)
  IN Load(m, 1)

\* init(), were it to take the persisted version whatever the store's own is
RestoredVersionUnguarded(v, loaded) ==
  LET maybeVersion == MapGet(loaded, VersionKey) IN
  IF TypeOf(maybeVersion) = "number" THEN maybeVersion.n ELSE v

\* init(), were it to leave the version alone
RestoredVersionNever(v, loaded) == v

\* the version after init() has looked at loadedData["__version__"]
RestoredVersion(v, loaded) ==
  LET maybeVersion == MapGet(loaded, VersionKey) IN
  IF TypeOf(maybeVersion) = "number" /\ v >= 0 THEN maybeVersion.n ELSE v

\* init() resumes after await this.adapter.all(): it loads the entries and
\* the version, and resolves
InitLoad ==
  /\ initP.pc = "all"
  /\ memoryMap' = LoadInto(memoryMap, initP.data)
  /\ version' = RestoredVersion(version, initP.data)
  /\ LET restored == TypeOf(MapGet(initP.data, VersionKey)) = "number" /\ version >= 0 IN
       /\ verBase' = IF restored THEN version' ELSE verBase
       /\ nApplied' = IF restored THEN 0 ELSE nApplied
  /\ syncP' = IF memoryMap' # memoryMap \/ version' # version
                THEN Disturbed(syncP) ELSE syncP
  /\ initP' = Idle
  /\ inited' = TRUE
  /\ last' = Async("init", "ok", "")
  /\ UNCHANGED <<hookCalls, logged, unhandled, configVars, adapterVars, backupP, syncQ,
                 nStores, nOps, nChanged, synced>>

\* ---------------------------------------------------------- createBackup()

\* createBackup, were it to pass the version counter as it is
BackupVersionRaw(v) == v

\* const backupVersion = this.version >= 0 ? this.version : 0
BackupVersion(v) == IF v >= 0 THEN v ELSE 0

\* createBackup, were it to go on whatever the adapter is
HasBackupAlways(a) == TRUE

\* this.adapter?.backup is there: FileAdapter and SqliteAdapter define backup
HasBackup(a) == a \in {"file", "sqlite"}

\* KeyValueStore.createBackup() is called: it reads the version and runs into
\* this.adapter.backup().  SqliteAdapter.backup checks the database is open and
\* suspends copying the file; FileAdapter.backup suspends in writeFile.
BackupCall ==
  /\ NoneInFlight
  /\ UNCHANGED <<storeVars, configVars, adapterVars, initP, syncP, syncQ, nStores,
                 nApplied, verBase, nChanged, inited, synced>>
  /\ LET backupVersion == BackupVersion(version) IN
     IF ~HasBackup(adapter)
       THEN /\ last' = Async("backup", "ok", "")
            /\ UNCHANGED <<backupP, nOps>>
       ELSE IF adapter = "sqlite"
         THEN IF db = "null"
           THEN /\ last' = Async("backup", "throw", "SQLite adapter not initialized. Call init() first.")
                /\ UNCHANGED <<backupP, nOps>>
           ELSE /\ MayGrow
                /\ nOps' = nOps + 1
                /\ backupP' = Proc("copy", 0, <<>>, backupVersion, TRUE)
                /\ last' = Async("backup", "pending", "")
         ELSE /\ MayGrow
              /\ nOps' = nOps + 1
              /\ backupP' = Proc("flush", 0, FileContent(cache), backupVersion, TRUE)
              /\ last' = Async("backup", "pending", "")

\* FileAdapter.backup: the write of the document completes
BackupFlushDone ==
  /\ backupP.pc = "flush"
  /\ WriteDisk(backupP.data)
  /\ backupP' = [backupP EXCEPT !.pc = "copy", !.data = <<>>]
  /\ last' = Async("backup", "pending", "")
  /\ UNCHANGED <<storeVars, configVars, cache, db, backups, initP, syncP, syncQ,
                 nStores, nOps, nApplied, verBase, nChanged, inited>>

\* adapter.backup: the file is read and written to <path>.<timestamp>.backup
BackupCopy ==
  /\ backupP.pc = "copy"
  /\ backups' = backups + 1
  /\ backupP' = [backupP EXCEPT !.pc = "hook"]
  /\ last' = Async("backup", "pending", "")
  /\ UNCHANGED <<storeVars, configVars, cache, db, disk, initP, syncP, syncQ, ghostVars>>

\* createBackup() resumes after await this.adapter.backup(): onBackup fires
\* with the version read before the await
BackupHook ==
  /\ backupP.pc = "hook"
  /\ hookCalls' = [hookCalls EXCEPT !.backup = @ + 1]
  /\ logged' = LoggedAfter(1)
  /\ unhandled' = UnhandledAfter(1)
  /\ backupP' = Idle
  /\ last' = IF HookDispatch(hooks) = "escapes"
               THEN Async("backup", "throw", "hook")
               ELSE Call("backup", NoKey, NoValue, "none", "ok", Num(backupP.ver), "")
  /\ UNCHANGED <<memoryMap, version, configVars, adapterVars, initP, syncP, syncQ, ghostVars>>

\* ------------------------------------------------------------------- specs

\* the async calls, one step at a time
AsyncStep ==
  \/ SyncCall
  \/ SyncWriteDone
  \/ SyncResume
  \/ InitCall
  \/ InitFileRead
  \/ InitFileWrite
  \/ InitAll
  \/ InitLoad
  \/ BackupCall
  \/ BackupFlushDone
  \/ BackupCopy
  \/ BackupHook

\* the keys and values used on stores with an adapter
PersistKeys == {StrKey("a"), StrKey(VersionKey)}
PersistValues == {Num(1), DateV(7)}

\* a store over a file or a database, through successive instances
Next ==
  \/ \E key \in PersistKeys : Get(key, "none")
  \/ \E key \in PersistKeys, value \in PersistValues : Set(key, value, "none")
  \/ \E key \in PersistKeys : Delete(key)
  \/ \E ev \in BOOLEAN : NewStore(ev)
  \/ AsyncStep

Spec == Init /\ [][Next]_vars

\* a store without adapter, with every kind of key, value and validator
InitMem == InitWith({"none"}, {"returns"}, {FALSE}, {FALSE})

NextMem ==
  \/ \E key \in KeyArgs, vd \in Validators : Get(key, vd)
  \/ \E key \in KeyArgs, value \in Values, vd \in Validators : Set(key, value, vd)
  \/ \E key \in KeyArgs : Delete(key)
  \/ \E ev \in BOOLEAN : NewStore(ev)
  \/ SyncCall
  \/ InitCall
  \/ BackupCall

SpecMem == InitMem /\ [][NextMem]_vars

\* a store without adapter, over a file, or over an adapter without backup (of
\* which only createBackup is called: the methods of such an adapter are the
\* user's), whose hooks return, throw or reject
InitHooks == InitWith({"none", "file", "bare"}, HookBehaviours, {FALSE}, {FALSE})

HookKeys == {StrKey("a"), NullKey}
HookValues == {Num(1), Cyclic}

NextHooks ==
  \/ \E key \in HookKeys : Get(key, "none")
  \/ \E key \in HookKeys, value \in HookValues : Set(key, value, "none")
  \/ \E key \in HookKeys : Delete(key)
  \/ AsyncStep

SpecHooks == InitHooks /\ [][NextHooks]_vars

\* a SqliteAdapter used on its own
InitSqlite == InitWith({"sqlite"}, {"returns"}, {FALSE}, {FALSE})

SqliteKeys == {"a", VersionKey}
SqliteValues == {Num(1), DateV(7), Undefined}

NextSqlite ==
  \/ SqliteInit
  \/ \E k \in SqliteKeys : SqliteGet(k)
  \/ \E k \in SqliteKeys, v \in SqliteValues : SqliteSet(k, v)
  \/ \E k \in SqliteKeys : SqliteDelete(k)
  \/ SqliteAll
  \/ SqliteBackup

SpecSqlite == InitSqlite /\ [][NextSqlite]_vars

\* one store, with or without the periodic sync
InitTimer == InitWith({"none", "file", "sqlite"}, {"returns"}, BOOLEAN, {FALSE})

TimerKeys == {StrKey("a")}
TimerValues == {Num(1), Num(2)}

NextTimer ==
  \/ \E key \in TimerKeys : Get(key, "none")
  \/ \E key \in TimerKeys, value \in TimerValues : Set(key, value, "none")
  \/ \E key \in TimerKeys : Delete(key)
  \/ TimerTick
  \/ Dispose
  \/ AsyncStep

SpecTimer == InitTimer /\ [][NextTimer]_vars

\* one store with the periodic sync, the timer firing while a sync() is in
\* flight; memory is changed only while none is
InitOverlap == InitWith({"file", "sqlite"}, {"returns"}, {TRUE}, {FALSE})

OverlapKeys == {StrKey("a"), StrKey("b")}
OverlapValues == {Num(1), Num(2)}

NextOverlap ==
  \/ \E key \in OverlapKeys, value \in OverlapValues :
       NoneInFlight /\ Set(key, value, "none")
  \/ InitCall
  \/ InitFileRead
  \/ InitFileWrite
  \/ InitAll
  \/ InitLoad
  \/ SyncCall
  \/ TimerTick
  \/ SyncWriteDone
  \/ SyncResume
  \/ OverlapTick
  \/ OverlapWriteDone
  \/ OverlapResume

SpecOverlap == InitOverlap /\ [][NextOverlap]_vars

\* tasks incrementing a counter while sync() calls are in flight
InitCounter == InitWith({"none", "file", "sqlite"}, {"returns"}, {FALSE}, {FALSE})

CounterKey == StrKey("concurrentKey")

NextCounter ==
  \/ IncrementTask(CounterKey)
  \/ Get(CounterKey, "none")
  \/ SyncCall
  \/ SyncWriteDone
  \/ SyncResume

SpecCounter == InitCounter /\ [][NextCounter]_vars

\* one store left to its periodic sync: no explicit sync(), no dispose(). The
\* interval timer keeps firing and adapter I/O in flight settles; a tick is
\* taken between the calls in flight, hence the strong fairness on it.
InitPeriodic == InitWith({"none", "file", "sqlite"}, {"returns"}, BOOLEAN, {FALSE})

PeriodicKeys == {"a", VersionKey}
PeriodicValues == {Num(1), Num(2)}

NextPeriodic ==
  \/ \E k \in PeriodicKeys, value \in PeriodicValues : Set(StrKey(k), value, "none")
  \/ \E k \in PeriodicKeys : Delete(StrKey(k))
  \/ TimerTick
  \/ SyncWriteDone
  \/ SyncResume
  \/ InitCall
  \/ InitFileRead
  \/ InitFileWrite
  \/ InitAll
  \/ InitLoad

SpecPeriodic ==
  /\ InitPeriodic
  /\ [][NextPeriodic]_vars
  /\ SF_vars(TimerTick)
  /\ WF_vars(SyncWriteDone)
  /\ WF_vars(SyncResume)
  /\ WF_vars(InitFileRead)
  /\ WF_vars(InitFileWrite)
  /\ WF_vars(InitAll)
  /\ WF_vars(InitLoad)

\* one store over a file that may hold any document when init() reads it
InitFile == InitWith({"file"}, {"returns"}, {FALSE}, {FALSE})

FileKeys == {StrKey("a")}
FileValues == {Num(1), Num(2)}

NextFile ==
  \/ \E d \in Documents : PutDocument(d)
  \/ \E key \in FileKeys, value \in FileValues : Set(key, value, "none")
  \/ InitCall
  \/ InitFileRead
  \/ InitFileWrite
  \/ InitAll
  \/ InitLoad
  \/ SyncCall
  \/ SyncWriteDone
  \/ SyncResume

SpecFile == InitFile /\ [][NextFile]_vars

\* one store over storage that may fail a write
InitFault == InitWith({"file", "sqlite"}, {"returns"}, {FALSE}, {TRUE})

FaultKeys == {StrKey("a"), StrKey("b")}
FaultValues == {Num(1)}

NextFault ==
  \/ \E key \in FaultKeys, value \in FaultValues : Set(key, value, "none")
  \/ \E key \in FaultKeys : Delete(key)
  \/ AsyncStep

SpecFault == InitFault /\ [][NextFault]_vars

\* ------------------------------------------------------------------ claims

\* C1: a set(k, v) without validator that returns, followed immediately by
\* get(k) without validator, makes get return v itself, for every string key
\* (the empty string too) and every value JSON.stringify accepts.
C1_SetThenGet ==
  [][(/\ last.op = "set" /\ last.out = "ok" /\ last.vd = "none"
      /\ last'.op = "get" /\ last'.vd = "none" /\ last'.key = last.key)
     => (last'.out = "ok" /\ last'.ret = last.val)]_vars

\* a get of the empty-string key returns the Date object the one set stored
C1_Witness ==
  /\ last.op = "get" /\ last.vd = "none" /\ last.key = StrKey("")
  /\ last.ret = DateV(7)
  /\ nOps = 1 /\ hookCalls.update = 1

\* C2: after delete(k) the key is gone and get(k) returns undefined; and a
\* second delete(k) right after the first changes nothing: the map, the
\* version and the hook invocations stay as the first delete left them.
C2_DeleteIdempotent ==
  [][/\ (last'.op = "delete" /\ last'.out = "ok")
          => /\ ~MapHas(memoryMap', last'.key.s)
             /\ GetOutcome(memoryMap', last'.key, "none").ret = Undefined
     /\ (/\ last.op = "delete" /\ last.out = "ok"
         /\ last'.op = "get" /\ last'.key = last.key)
          => (last'.out = "ok" /\ last'.ret = Undefined)
     /\ (/\ last.op = "delete" /\ last.out = "ok"
         /\ last'.op = "delete" /\ last'.key = last.key)
          => UNCHANGED storeVars]_vars

\* a delete has removed the key a set had stored, in a versioned store
C2_Witness ==
  /\ last.op = "delete" /\ last.out = "ok"
  /\ hookCalls.update = 1 /\ hookCalls.delete = 1
  /\ memoryMap = <<>>
  /\ version = 2

\* the state right after init() has resolved on a store constructed after an
\* undisturbed sync() of an earlier, initialized store over the same target,
\* with the target as that sync left it
FreshInitDone ==
  /\ last.op = "init" /\ last.out = "ok"
  /\ adapter # "none"
  /\ synced.valid /\ synced.inited
  /\ synced.store < nStores

\* get(k) returns what the earlier store held for k when it synced
Recovered(k) ==
  GetOutcome(memoryMap, StrKey(k), "none").ret = MapGet(synced.map, k)

\* C3 as stated: after set(k, v), a completed sync() and a fresh store's
\* init(), get(k) returns v, for every key k and every value v that is its
\* own JSON round trip.
C3_AnyKey ==
  FreshInitDone =>
    \A i \in 1..Len(synced.map) :
      RoundTrips(synced.map[i].v) => Recovered(synced.map[i].k)

\* C3, amended: the same for every key other than the reserved "__version__",
\* which sync() does not push.
C3_RoundTrip ==
  FreshInitDone =>
    \A i \in 1..Len(synced.map) :
      (synced.map[i].k # VersionKey /\ RoundTrips(synced.map[i].v))
        => Recovered(synced.map[i].k)

\* a fresh store that has set nothing itself returns, after init(), the number
\* the earlier store set and synced
C3_Witness ==
  /\ FreshInitDone
  /\ MapGet(synced.map, "a") = Num(1)
  /\ MapGet(memoryMap, "a") = Num(1)
  /\ hookCalls.update = 0

\* C4 as stated: with versioning enabled the version is the number of
\* set/delete calls since construction that changed the in-memory map; a call
\* that leaves the map as it was does not increment it.
C4_CountsMapChanges == enableVersioning => version = nChanged

\* C4, amended: with versioning enabled the version is the number of set calls
\* that returned plus the number of delete calls that removed a key, counted
\* from the version the store was constructed with (0) or that init() last
\* restored; a set increments it also when it stores the value the key held.
C4_CountsAppliedCalls == enableVersioning => version = verBase + nApplied

\* a store whose init() restored version 1 and that has set a value since
C4_Witness ==
  /\ enableVersioning
  /\ verBase = 1 /\ nApplied = 1 /\ version = 2
  /\ last.op = "set" /\ last.out = "ok"

\* C5: a store with versioning enabled starts at version 0; a set that
\* returns adds exactly 1, a delete that removes a key adds exactly 1, and a
\* delete of an absent key leaves the version as it is.
C5_VersionSteps ==
  /\ enableVersioning => version = 0
  /\ [][enableVersioning' =>
          /\ last'.op = "new" => version' = 0
          /\ (last'.op = "set" /\ last'.out = "ok") => version' = version + 1
          /\ (last'.op = "delete" /\ last'.out = "ok" /\ MapHas(memoryMap, last'.key.s))
               => version' = version + 1
          /\ (last'.op = "delete" /\ last'.out = "ok" /\ ~MapHas(memoryMap, last'.key.s))
               => version' = version]_vars

\* set, set, delete (and delete again): the version is 3
C5_Witness ==
  /\ enableVersioning
  /\ last.op = "delete" /\ last.out = "ok"
  /\ hookCalls.update = 2 /\ hookCalls.delete = 1
  /\ ~MapHas(memoryMap, last.key.s)
  /\ version = 3

\* C6: in a store constructed with versioning enabled the version is
\* non-negative and no operation on that store, init() and repeated init()
\* included, ever makes it smaller.
C6_NeverDecreases ==
  [][(enableVersioning /\ nStores' = nStores)
       => (version' >= version /\ version' >= 0)]_vars

\* init() has put a persisted version below the one the store had reached
C6_Witness ==
  /\ enableVersioning
  /\ last.op = "init" /\ last.out = "ok"
  /\ hookCalls.update = 2
  /\ version = 1

\* C7: in a store constructed without versioning the version is -1 in every
\* reachable state, whatever set, delete, sync, createBackup or init did, even
\* when the adapter holds a version under the reserved key.
C7_DisabledStaysMinusOne == ~enableVersioning => version = -1

\* a store without versioning has run init() over a persisted version
C7_Witness ==
  /\ ~enableVersioning
  /\ last.op = "init" /\ last.out = "ok"
  /\ hookCalls.update = 0
  /\ \E i \in 1..Len(disk.data) :
       disk.data[i].k = VersionKey /\ Parse(disk.data[i].v) = Num(1)
  /\ MapGet(memoryMap, VersionKey) = Num(1)
  /\ version = -1

\* C8: after a completed sync() of a versioning-enabled store, a fresh
\* versioning-enabled store over the same target has, once its init() is done,
\* the version the first store had when it synced.
C8_VersionPersists ==
  (FreshInitDone /\ enableVersioning /\ synced.version >= 0)
    => version = synced.version

\* the fresh store took over a version that mutations had raised
C8_Witness ==
  /\ FreshInitDone /\ enableVersioning
  /\ synced.version >= 1
  /\ hookCalls.update = 0
  /\ version = synced.version

\* C9: when the validator passed to set(k, v) throws, the caller gets the
\* validator's error and the store is as it was: k keeps its prior value or
\* stays absent, the version is not incremented, onUpdate is not invoked.
C9_ValidatorThrowKeepsStore ==
  [][(/\ last'.op = "set"
      /\ TypeOf(last'.key) = "string"
      /\ Stringify(last'.val) # JsonThrow
      /\ last'.vd # "none"
      /\ ValidatorThrows(last'.vd, last'.val))
       => (/\ last'.out = "throw" /\ last'.err = "validator"
           /\ UNCHANGED storeVars)]_vars

\* a validator has rejected a value for a key that holds an earlier one
C9_Witness ==
  /\ last.op = "set" /\ last.out = "throw" /\ last.err = "validator"
  /\ last.val = DateV(7)
  /\ TypeOf(last.key) = "string"
  /\ MapGet(memoryMap, last.key.s) = Num(1)
  /\ version = 1
  /\ hookCalls.update = 1

\* C10: get, set and delete with a non-string key, and set with a value that
\* JSON.stringify rejects, throw and leave the in-memory map and the version as
\* they were and invoke no hook.
C10_BadArgumentsKeepStore ==
  [][(\/ /\ last'.op \in {"get", "set", "delete"}
         /\ TypeOf(last'.key) # "string"
      \/ /\ last'.op = "set"
         /\ Stringify(last'.val) = JsonThrow)
       => (last'.out = "throw" /\ UNCHANGED storeVars)]_vars

\* set has rejected a cyclic value for a key of a store that holds an entry
C10_Witness ==
  /\ last.op = "set" /\ last.out = "throw"
  /\ last.err = "Value must be JSON serializable"
  /\ last.val = Cyclic
  /\ TypeOf(last.key) = "string"
  /\ MapGet(memoryMap, last.key.s) = Num(1)
  /\ version = 1
  /\ hookCalls.update = 1

\* C11: with hooks that throw synchronously, a set with valid arguments still
\* stores the value, increments the version and returns the stored value, and
\* a delete of a present key still removes it, increments the version and
\* returns normally.
C11_ThrowingHookHarmless ==
  [][hooks = "throws" =>
       /\ (/\ last'.op = "set"
           /\ TypeOf(last'.key) = "string"
           /\ Stringify(last'.val) # JsonThrow
           /\ last'.vd = "none")
            => (/\ last'.out = "ok" /\ last'.ret = last'.val
                /\ MapGet(memoryMap', last'.key.s) = last'.val
                /\ version' = IF enableVersioning THEN version + 1 ELSE version)
       /\ (/\ last'.op = "delete"
           /\ TypeOf(last'.key) = "string"
           /\ MapHas(memoryMap, last'.key.s))
            => (/\ last'.out = "ok"
                /\ ~MapHas(memoryMap', last'.key.s)
                /\ version' = IF enableVersioning THEN version + 1 ELSE version)]_vars

\* onUpdate and onDelete have each thrown once, and set and delete went through
C11_Witness ==
  /\ hooks = "throws"
  /\ last.op = "delete" /\ last.out = "ok"
  /\ hookCalls.update = 1 /\ hookCalls.delete = 1
  /\ logged = 2
  /\ memoryMap = <<>>
  /\ version = 2

\* C12: every failure of an onUpdate, onDelete or onBackup hook, a synchronous
\* throw or a rejection of the promise it returned, is caught by the store and
\* reported to the log; none is left as an unhandled rejection.
C12_HookFailuresCaught ==
  /\ unhandled = 0
  /\ hooks # "returns"
       => logged = hookCalls.update + hookCalls.delete + hookCalls.backup

\* set has returned while the promise onUpdate returned rejects unobserved
C12_Witness ==
  /\ hooks = "rejects"
  /\ last.op = "set" /\ last.out = "ok"
  /\ hookCalls.update = 1
  /\ unhandled = 1
  /\ logged = 0

\* C13: onUpdate is invoked exactly once by each set that returns normally and
\* onDelete exactly once by each delete that removes a key; a set that throws,
\* a delete of an absent key or with a bad key, get, init and sync invoke
\* neither.
C13_HooksOncePerMutation ==
  [][/\ (last'.op = "set" /\ last'.out = "ok")
          => (/\ hookCalls'.update = hookCalls.update + 1
              /\ hookCalls'.delete = hookCalls.delete)
     /\ (/\ last'.op = "delete" /\ last'.out = "ok"
         /\ MapHas(memoryMap, last'.key.s))
          => (/\ hookCalls'.delete = hookCalls.delete + 1
              /\ hookCalls'.update = hookCalls.update)
     /\ (\/ last'.op = "set" /\ last'.out = "throw"
         \/ last'.op = "delete" /\ last'.out = "throw"
         \/ last'.op = "delete" /\ last'.out = "ok" /\ ~MapHas(memoryMap, last'.key.s)
         \/ last'.op \in {"get", "init", "sync"})
          => (/\ hookCalls'.update = hookCalls.update
              /\ hookCalls'.delete = hookCalls.delete)]_vars

\* a set and a delete have fired one hook each, and a set that threw none
C13_Witness ==
  /\ last.op = "set" /\ last.out = "throw"
  /\ hookCalls.update = 1 /\ hookCalls.delete = 1
  /\ nApplied = 2

\* C14: set(k, undefined) deletes k: afterwards k is not an entry of the
\* in-memory map, and a delete(k) that follows changes nothing (no version
\* increment, no onDelete).
C14_SetUndefinedDeletes ==
  [][/\ (/\ last'.op = "set" /\ last'.out = "ok"
         /\ last'.val = Undefined /\ last'.vd = "none")
          => ~MapHas(memoryMap', last'.key.s)
     /\ (/\ last.op = "set" /\ last.out = "ok"
         /\ last.val = Undefined /\ last.vd = "none"
         /\ last'.op = "delete" /\ last'.key = last.key)
          => UNCHANGED storeVars]_vars

\* set(k, undefined) has returned and k is an entry of the map, holding
\* undefined
C14_Witness ==
  /\ last.op = "set" /\ last.out = "ok"
  /\ last.val = Undefined /\ last.vd = "none"
  /\ MapHas(memoryMap, last.key.s)
  /\ MapGet(memoryMap, last.key.s) = Undefined
  /\ hookCalls.update = 1

\* C15: delete(k) on a key for which get(k) returns absent is a no-op: the
\* map is unchanged, the version is not incremented and onDelete is not
\* invoked.
C15_DeleteAbsentNoOp ==
  [][(/\ last'.op = "delete"
      /\ TypeOf(last'.key) = "string"
      /\ GetOutcome(memoryMap, last'.key, "none").ret = Undefined)
       => UNCHANGED storeVars]_vars

\* get(k) has returned absent for a key that is an entry of the map
C15_Witness ==
  /\ last.op = "get" /\ last.out = "ok" /\ last.vd = "none"
  /\ last.ret = Undefined
  /\ TypeOf(last.key) = "string"
  /\ MapHas(memoryMap, last.key.s)

\* a sync() of this store has just resolved, memory being what it was when
\* the sync started
CleanSyncDone ==
  /\ last.op = "sync" /\ last.out = "ok"
  /\ adapter # "none"
  /\ synced.valid /\ synced.store = nStores
  /\ synced.map = memoryMap /\ synced.version = version

\* the adapter holds the current version under "__version__", and sync() hands
\* it to the adapter before any entry
VersionPushedFirst ==
  /\ []((CleanSyncDone /\ enableVersioning)
          => AdapterGet(VersionKey) = Num(version))
  /\ [][(/\ enableVersioning
         /\ syncP.pc = "idle" /\ syncP'.pc # "idle")
          => (syncP'.idx = 0 /\ AdapterGet(VersionKey)' = Num(version))]_vars

\* C16: a sync() that completes with no mutation during it leaves the adapter
\* holding, for every in-memory key other than "__version__", the in-memory
\* value, and with versioning the current version under "__version__",
\* written before any entry.
C16_AdapterHoldsMemory ==
  /\ [](CleanSyncDone =>
         \A i \in 1..Len(memoryMap) :
           memoryMap[i].k # VersionKey
             => AdapterGet(memoryMap[i].k) = memoryMap[i].v)
  /\ VersionPushedFirst

\* C16, amended: the target holds the JSON text of each such value that is not
\* undefined, and the adapter returns a value equal to the in-memory one
\* whenever that value is its own JSON round trip.
C16_AdapterHoldsJson ==
  /\ [](CleanSyncDone =>
         \A i \in 1..Len(memoryMap) :
           (memoryMap[i].k # VersionKey /\ memoryMap[i].v # Undefined)
             => /\ TargetText(memoryMap[i].k) = Stringify(memoryMap[i].v)
                /\ RoundTrips(memoryMap[i].v)
                     => AdapterGet(memoryMap[i].k) = memoryMap[i].v)
  /\ VersionPushedFirst

\* a sync() has pushed an entry and the version 1 of a versioned store
C16_Witness ==
  /\ CleanSyncDone /\ enableVersioning
  /\ version = 1
  /\ MapGet(memoryMap, "a") = Num(1)
  /\ AdapterGet("a") = Num(1)
  /\ TargetText(VersionKey) = Stringify(Num(1))

\* C17: in a store with no adapter, init(), sync() and createBackup() resolve
\* and change nothing (map, version, hooks, storage); in a store whose adapter
\* has no backup method createBackup() likewise resolves, changes nothing and
\* does not invoke onBackup.
C17_NoAdapterNoEffect ==
  [][/\ (adapter = "none" /\ last'.op \in {"init", "sync", "backup"})
          => (last'.out = "ok" /\ UNCHANGED <<storeVars, adapterVars>>)
     /\ (adapter = "bare" /\ last'.op = "backup")
          => (last'.out = "ok" /\ UNCHANGED <<storeVars, adapterVars>>)]_vars

\* createBackup() has resolved on a store without adapter that holds an entry
C17_Witness ==
  /\ adapter = "none"
  /\ last.op = "backup" /\ last.out = "ok"
  /\ memoryMap # <<>>
  /\ hookCalls.update = 1 /\ hookCalls.backup = 0
  /\ backups = 0

\* C18: after init() completes on a store over a file or a database, every
\* key the target holds is in the in-memory map with its persisted value, and
\* the version is the persisted one if versioning is enabled and a version was
\* persisted.
C18_InitLoadsAll ==
  (last.op = "init" /\ last.out = "ok" /\ adapter \in {"file", "sqlite"})
    => /\ \A i \in 1..Len(disk.data) :
            /\ MapHas(memoryMap, disk.data[i].k)
            /\ MapGet(memoryMap, disk.data[i].k) = Parse(disk.data[i].v)
       /\ (enableVersioning /\ TypeOf(AdapterGet(VersionKey)) = "number")
            => Num(version) = AdapterGet(VersionKey)

\* a store that has set nothing holds, after init(), the persisted image of a
\* Date and the persisted version
C18_Witness ==
  /\ last.op = "init" /\ last.out = "ok"
  /\ enableVersioning
  /\ hookCalls.update = 0
  /\ TargetText("a") = Stringify(DateV(7))
  /\ MapGet(memoryMap, "a") = Parse(Stringify(DateV(7)))
  /\ version = 1

\* C19: when the adapter's init fails (the database cannot be opened),
\* store.init() rejects with the adapter's error and the in-memory map and the
\* version are as they were before the call.
C19_InitFailurePropagates ==
  [][(/\ adapter = "sqlite"
      /\ initP.pc = "idle" /\ last'.op = "init"
      /\ initP'.pc = "idle")
       => (/\ db' = "null"
           /\ last'.out = "throw"
           /\ last'.err = "unable to open database file"
           /\ UNCHANGED storeVars)]_vars

\* init() has rejected on a store that holds an entry at version 1
C19_Witness ==
  /\ adapter = "sqlite"
  /\ last.op = "init" /\ last.out = "throw"
  /\ last.err = "unable to open database file"
  /\ db = "null"
  /\ MapGet(memoryMap, "a") = Num(1)
  /\ version = 1

\* C20: the SqliteAdapter is usable exactly when its most recent init()
\* succeeded.  It starts unopened; init() leaves it open if it succeeds and
\* unopened if it fails, whatever it was; no other method changes that; while
\* unopened, get, set, delete, all and backup fail with the not-initialized
\* error and touch no storage; while open they do not fail that way.
C20_UsableIffInitSucceeded ==
  /\ db = "null"
  /\ [][LET methods == {"adapter.get", "adapter.set", "adapter.delete",
                        "adapter.all", "adapter.backup"} IN
        /\ last'.op = "adapter.init" => (db' = "open" <=> last'.out = "ok")
        /\ last'.op \in methods => db' = db
        /\ (last'.op \in methods /\ db = "null")
             => (/\ last'.out = "throw" /\ last'.err = NotInitialized
                 /\ UNCHANGED <<disk, backups>>)
        /\ (last'.op \in methods /\ db = "open")
             => last'.err # NotInitialized]_vars

\* get fails fast on an adapter whose table holds a row: an init() succeeded,
\* a set wrote the row, and a later init() failed
C20_Witness ==
  /\ last.op = "adapter.get" /\ last.out = "throw"
  /\ last.err = NotInitialized
  /\ db = "null"
  /\ disk.data # <<>>

\* C21: createBackup() on an adapter with a backup method runs the adapter's
\* backup and then invokes onBackup exactly once, with the version the call
\* read (0 when versioning is disabled); if the adapter's backup fails, the
\* call rejects with that error and onBackup is not invoked.
C21_BackupThenHook ==
  /\ [](backupP.pc = "hook" => backups >= 1)
  /\ [][/\ (/\ HasBackup(adapter)
            /\ backupP.pc = "idle" /\ last'.op = "backup")
             => /\ hookCalls' = hookCalls
                /\ IF adapter = "sqlite" /\ db = "null"
                     THEN /\ last'.out = "throw" /\ last'.err = NotInitialized
                          /\ backupP'.pc = "idle" /\ backups' = backups
                     ELSE /\ last'.out = "pending"
                          /\ backupP'.pc # "idle"
                          /\ backupP'.ver = IF enableVersioning THEN version ELSE 0
        /\ (hookCalls'.backup # hookCalls.backup /\ nStores' = nStores)
             => /\ backupP.pc = "hook" /\ backupP'.pc = "idle"
                /\ hookCalls'.backup = hookCalls.backup + 1
                /\ last'.op = "backup" /\ last'.out = "ok"
                /\ last'.ret = Num(backupP.ver)
        /\ (HasBackup(adapter) /\ last'.op = "backup" /\ last'.out = "ok")
             => hookCalls'.backup = hookCalls.backup + 1]_vars

\* a store without versioning has made a backup and onBackup got version 0
C21_Witness ==
  /\ ~enableVersioning
  /\ last.op = "backup" /\ last.out = "ok"
  /\ last.ret = Num(0)
  /\ backups = 1
  /\ hookCalls.backup = 1

\* C22: dispose() cancels the periodic-sync timer: once it has returned no
\* timer-triggered sync() starts any more; it changes nothing but the timer
\* (the map, the version, the hooks' counts, the adapter and the calls in
\* flight stay as they are), and nothing at all when the timer is already
\* cancelled or was never started; afterwards set still stores what it
\* returns and an explicit sync() still starts and settles as before.
C22_DisposeCancelsTimer ==
  [][/\ last'.op = "dispose" =>
          /\ ~timerOn'
          /\ last'.out = "ok"
          /\ UNCHANGED <<storeVars, adapterVars, procVars, adapter,
                         enableVersioning, hooks, syncInterval>>
     /\ (last'.op = "dispose" /\ ~timerOn) => timerOn' = timerOn
     /\ ~timerOn => ~timerOn'
     /\ (~timerOn /\ syncP.pc = "idle") => last'.op # "tick"
     /\ (~timerOn /\ last'.op = "set" /\ last'.out = "ok") =>
          MapGet(memoryMap', last'.key.s) = last'.ret
     /\ (~timerOn /\ NoneInFlight /\ last'.op = "sync" /\ adapter = "file") =>
          IF version >= 0 \/ NextEntry(memoryMap, 0) # 0
            THEN last'.out = "pending" /\ syncP'.pc = "io"
            ELSE last'.out = "ok" /\ syncP'.pc = "idle"]_vars

C22_Witness ==
  /\ syncInterval = "set" /\ ~timerOn
  /\ last.op = "sync" /\ last.out = "ok"
  /\ synced.valid /\ synced.map # <<>>
  /\ disk.data # <<>>

\* C23: tasks that each read the counter with get and write it back plus one
\* with set, with nothing between the read and the write, lose no update:
\* after N of them the counter has increased by exactly N, whatever sync()
\* calls were in flight between the tasks; each task raises it by one.
C23_NoLostUpdate ==
  /\ [](GetOrZero(memoryMap, CounterKey) = nApplied)
  /\ [][last'.op = "set" =>
          /\ last'.out = "ok"
          /\ GetOrZero(memoryMap', CounterKey) = GetOrZero(memoryMap, CounterKey) + 1
          /\ last'.ret = MapGet(memoryMap', CounterKey.s)]_vars

C23_Witness ==
  /\ nApplied = 3
  /\ last.op = "get" /\ last.ret = Num(3)

\* what get(k, validator) on map m is to return or throw when the validator
\* runs exactly on the keys in the set validated
GetValidates(m, c, validated) ==
  LET val == MapGet(m, c.key.s) IN
  IF c.key.s \in validated /\ c.vd # "none"
    THEN IF ValidatorThrows(c.vd, val)
           THEN c.out = "throw" /\ c.err = "validator"
           ELSE c.out = "ok" /\ c.ret = ValidatorResult(c.vd, val)
    ELSE c.out = "ok" /\ c.ret = val

C25_AdapterErrorsDelivered ==
  (last.op \in {"init", "sync", "tick"} /\ last.err # "") => last.out = "throw"

C25_Witness ==
  /\ adapter = "sqlite" /\ db = "null" /\ ~inited
  /\ last = Async("tick", "unhandled", NotInitialized)
  /\ syncP.pc = "idle"

\* C26: when an adapter write fails during sync(), sync() rejects with that
\* error and stops: the failing step writes nothing and undoes nothing (the
\* version and the keys written before stay in the adapter target), no later
\* key is written because the call has ended, and the in-memory map, the
\* version and the hooks' counts are as before.
C26_PartialSyncKept ==
  [][/\ (last'.op = "sync" /\ last'.out = "throw") =>
          /\ syncP.pc = "idle" => last'.err \in {NotInitialized, "AdapterIO"}
          /\ syncP.pc # "idle" => last'.err = "AdapterIO"
          /\ syncP' = Idle
          /\ UNCHANGED <<storeVars, disk, db, backups>>
     /\ (syncP.pc = "io" /\ syncP'.pc = "idle") =>
          last' = Async("sync", "throw", "AdapterIO")
     /\ (syncP.pc = "ready" /\ syncP'.pc = "idle"
           /\ NextEntry(memoryMap, syncP.idx) # 0) =>
          last' = Async("sync", "throw", "AdapterIO")]_vars

C26_Witness ==
  /\ last = Async("sync", "throw", "AdapterIO")
  /\ MapKeys(memoryMap) = {"a", "b"}
  /\ MapIndex(memoryMap, "a") < MapIndex(memoryMap, "b")
  /\ MapHas(disk.data, "a") /\ ~MapHas(disk.data, "b")
  /\ version = 2 /\ MapHas(disk.data, VersionKey)

\* the adapter accepts writes: a FileAdapter always, a SqliteAdapter once
\* its init() has opened the database
AdapterReady == adapter = "file" \/ (adapter = "sqlite" /\ db = "open")

\* with the timer running and the adapter ready, value v held under key k is
\* eventually in the adapter target, unless k is overwritten or deleted or
\* the adapter stops being ready first
EventuallyWritten(k, v) ==
  (timerOn /\ AdapterReady /\ MapHas(memoryMap, k) /\ MapGet(memoryMap, k) = v)
    ~> \/ TargetText(k) = Stringify(v)
       \/ ~(MapHas(memoryMap, k) /\ MapGet(memoryMap, k) = v)
       \/ ~AdapterReady

\* no sync() is started by a timer on a store without adapter or without
\* syncIntervalMs
NoTimerWithoutConfig ==
  [](~(syncIntervalMs /\ adapter # "none") => (~timerOn /\ last.op # "tick"))

\* C27 as stated: with an adapter and syncIntervalMs, every value set in
\* memory, under whatever key, and not overwritten or deleted since is
\* eventually written to the adapter by the periodic sync alone; without an
\* adapter or without syncIntervalMs no timer-driven sync ever happens.
C27_EveryKeyWritten ==
  /\ \A k \in PeriodicKeys, v \in PeriodicValues : EventuallyWritten(k, v)
  /\ NoTimerWithoutConfig

\* C27: with an adapter and syncIntervalMs, every value set in memory under
\* a key other than the reserved "__version__" and not overwritten or deleted
\* since is eventually written to the adapter by the periodic sync alone,
\* provided the adapter is ready and stays so; without an adapter or without
\* syncIntervalMs no timer-driven sync ever happens.
C27_PeriodicSyncWrites ==
  /\ \A k \in PeriodicKeys \ {VersionKey}, v \in PeriodicValues :
       EventuallyWritten(k, v)
  /\ NoTimerWithoutConfig

C27_Witness ==
  /\ timerOn /\ AdapterReady
  /\ last = Async("tick", "ok", "")
  /\ MapGet(memoryMap, "a") = Num(2)
  /\ TargetText("a") = Stringify(Num(2))
  /\ MapGet(memoryMap, VersionKey) = Num(1)
  /\ TargetText(VersionKey) # Stringify(Num(1))

\* C28 as stated: when FileAdapter.init() has run, the document on storage
\* equals the cache: the cache is empty and an empty document has been
\* written if the document was missing, did not parse or had a root that is
\* not an object, and the cache is the document if that was a valid object.
C28_DocumentEqualsCache ==
  [][(initP.pc \in {"read", "write"} /\ initP'.pc = "adapter_init") =>
       /\ disk'.exists /\ disk'.root = "object"
       /\ disk'.data = FileContent(cache')
       /\ (initP.pc = "read" /\ disk.exists /\ disk.root = "object")
            => cache' = ParseAll(disk.data)
       /\ ~(initP.pc = "read" /\ disk.exists /\ disk.root = "object")
            => cache' = <<>>]_vars

C28_Witness ==
  /\ last = Async("init", "ok", "")
  /\ inited
  /\ cache = <<>>
  /\ disk.exists /\ disk.root = "scalar"

\* C29: when set(k, v, validator) succeeds, the validator's result r is the
\* one value that is stored under k, passed to onUpdate as (k, r) in the one
\* onUpdate invocation the call makes, and returned by set; a get(k) that
\* follows returns r. The raw v is none of these when r differs from v.
C29_ValidatorResultEverywhere ==
  [][(last'.op = "set" /\ last'.out = "ok") =>
       LET r == ValidatorResult(last'.vd, last'.val)
           k == last'.key.s
       IN /\ ~ValidatorThrows(last'.vd, last'.val)
          /\ last'.ret = r
          /\ MapGet(memoryMap', k) = r
          /\ hookCalls'.update = hookCalls.update + 1
          /\ last'.hook.name = "update"
          /\ last'.hook.key = k
          /\ last'.hook.val = r
          /\ GetOutcome(memoryMap', last'.key, "none").ret = r]_vars

C29_Witness ==
  /\ last.op = "set" /\ last.out = "ok" /\ last.vd = "coerce"
  /\ last.val = DateV(7)
  /\ last.ret = Num(1)
  /\ MapGet(memoryMap, last.key.s) = Num(1)
  /\ last.hook = Hook("update", last.key.s, Num(1), version, Num(1))

\* C30: a hook is invoked inside the operation that triggers it, after the
\* map and the version have been updated and before the operation returns:
\* every set that returns and every delete that removes a key makes exactly
\* one invocation, of its own hook, which finds the store as the operation
\* leaves it; no other step of set, delete, get, init() or sync() invokes a
\* hook. So the invocations follow the effective mutations in call order,
\* whether the hooks return, throw, or return promises that reject.
C30_HooksInMutationOrder ==
  [][/\ (last'.op = "set" /\ last'.out = "ok") =>
          /\ hookCalls' = [hookCalls EXCEPT !.update = @ + 1]
          /\ last'.hook = Hook("update", last'.key.s, last'.ret, version',
                               MapGet(memoryMap', last'.key.s))
          /\ last'.hook.held = last'.ret
     /\ (last'.op = "delete" /\ last'.out = "ok" /\ memoryMap' # memoryMap) =>
          /\ hookCalls' = [hookCalls EXCEPT !.delete = @ + 1]
          /\ last'.hook = Hook("delete", last'.key.s, NoValue, version', Undefined)
          /\ ~MapHas(memoryMap', last'.key.s)
     /\ (last'.op \in {"set", "delete"} /\ last'.out = "ok") =>
          \/ version' = (IF enableVersioning THEN version + 1 ELSE version)
          \/ (last'.op = "delete" /\ memoryMap' = memoryMap)
     /\ ~(\/ last'.op = "set" /\ last'.out = "ok"
          \/ last'.op = "delete" /\ memoryMap' # memoryMap) =>
          /\ hookCalls'.update = hookCalls.update
          /\ hookCalls'.delete = hookCalls.delete
          /\ last'.hook = NoHook]_vars

C30_Witness ==
  /\ hooks = "rejects"
  /\ last.op = "delete" /\ last.hook.name = "delete"
  /\ hookCalls.update = 1 /\ hookCalls.delete = 1
  /\ unhandled = 2
  /\ version = 2

\* a sync() of this store has completed undisturbed, the adapter target has
\* not changed since, and neither the map nor the version has been changed
\* since that sync() started
Pushed ==
  /\ adapter # "none"
  /\ synced.valid /\ synced.store = nStores
  /\ synced.map = memoryMap /\ synced.version = version
  /\ synced.changed = nChanged

\* C31: sync() is idempotent: once a sync() has completed (a first one, or
\* the retry of one that failed half way), with no mutation since, every step
\* of a further sync() leaves the adapter target exactly as it is, whether
\* that further sync() completes or fails.
C31_SyncIdempotent ==
  [][(Pushed /\ last'.op = "sync") => (disk' = disk /\ Pushed')]_vars

C31_Witness ==
  /\ Pushed
  /\ last = Async("sync", "pending", "")
  /\ syncP.pc = "ready" /\ syncP.idx >= 1 /\ syncP.clean
  /\ MapHas(disk.data, "a") /\ MapHas(disk.data, "b")

\* C32 as stated: a deletion is durable once synced: when a sync() of the
\* store has completed undisturbed, the non-reserved keys the adapter target
\* holds are all in-memory keys, so a key that was persisted and then removed
\* with delete(k) is no longer in the target.
C32_DeletionDurable ==
  CleanSyncDone =>
    \A i \in 1..Len(disk.data) :
      disk.data[i].k # VersionKey => MapHas(memoryMap, disk.data[i].k)

C32_Witness ==
  /\ CleanSyncDone
  /\ hookCalls.delete = 1
  /\ ~MapHas(memoryMap, "a")
  /\ TargetText("a") = Stringify(Num(1))

AdapterKeys == IF adapter = "sqlite" THEN MapKeys(disk.data) ELSE MapKeys(cache)

\* C34: init() merges: when it resolves, every key that was in the map is
\* still there, a key the adapter does not hold keeps its value and its place,
\* a key the adapter holds has the adapter's value (an unsynced local set is
\* overwritten); no step of init() invokes a hook, and none changes the
\* version except that the load takes over the persisted one.
C34_InitMerges ==
  [][last'.op = "init" =>
       /\ hookCalls' = hookCalls /\ logged' = logged /\ unhandled' = unhandled
       /\ version' # version =>
            /\ initP.pc = "all"
            /\ version' = AdapterGet(VersionKey).n
       /\ memoryMap' # memoryMap => initP.pc = "all"
       /\ (initP.pc = "all" /\ last'.out = "ok") =>
            /\ Len(memoryMap') >= Len(memoryMap)
            /\ \A i \in 1..Len(memoryMap) :
                 /\ memoryMap'[i].k = memoryMap[i].k
                 /\ memoryMap[i].k \notin AdapterKeys
                      => memoryMap'[i].v = memoryMap[i].v
            /\ \A k \in AdapterKeys : MapGet(memoryMap', k) = AdapterGet(k)
            /\ MapKeys(memoryMap') = MapKeys(memoryMap) \cup AdapterKeys]_vars

C34_Witness ==
  /\ last = Async("init", "ok", "")
  /\ nStores = 1 /\ hookCalls.update = 2
  /\ MapGet(memoryMap, "a") = Str(7)
  /\ MapHas(memoryMap, VersionKey)

\* the JSON text the target d holds for k
TextIn(d, k) == IF MapHas(d.data, k) THEN MapGet(d.data, k) ELSE JsonNone

\* C35 as stated: when a sync() of a versioned store completes, whatever
\* set/delete calls ran while it was suspended, the version the adapter holds
\* under "__version__" and the entries it holds belong to one in-memory
\* state: the adapter holds the version the sync() started at, and for every
\* entry of the map as it was at that version, the value it had then.
C35_VersionLabelsEntries ==
  [][(/\ enableVersioning
      /\ syncP.pc # "idle" /\ syncP'.pc = "idle"
      /\ last'.op = "sync" /\ last'.out = "ok") =>
       /\ AdapterGet(VersionKey)' = Num(syncP.ver)
       /\ \A i \in 1..Len(syncP.snap) :
            (syncP.snap[i].k # VersionKey /\ syncP.snap[i].v # Undefined)
              => TextIn(disk', syncP.snap[i].k) = Stringify(syncP.snap[i].v)]_vars

C35_Witness ==
  /\ last = Async("sync", "ok", "")
  /\ nStores = 1 /\ hookCalls.update = 2
  /\ version = 2
  /\ AdapterGet(VersionKey) = Num(1)
  /\ MapGet(memoryMap, "a") = DateV(7)
  /\ TargetText("a") = Stringify(DateV(7))

\* C36 as stated: the version onBackup receives is the store's version at
\* the moment the hook is invoked (0 when versioning is disabled), also when
\* set/delete calls ran while createBackup() was suspended in
\* adapter.backup().
C36_BackupHookCurrentVersion ==
  [][(hookCalls'.backup = hookCalls.backup + 1 /\ last'.op = "backup") =>
       last'.ret = Num(IF version >= 0 THEN version ELSE 0)]_vars

C36_Witness ==
  /\ last.op = "backup" /\ last.out = "ok"
  /\ hookCalls.backup = 1 /\ hookCalls.update = 1
  /\ enableVersioning /\ version = 1
  /\ last.ret = Num(0)
\* C37 as stated: once the second of two overlapping sync() executions has
\* completed, the target holds the JSON text of every in-memory entry's value
C37_EveryEntryAfterOverlap ==
  [][(last'.op = "overlap" /\ last'.out = "ok" /\ syncP.pc = "idle") =>
       \A i \in 1..Len(memoryMap) :
         TextIn(disk', memoryMap[i].k) = Stringify(memoryMap[i].v)]_vars

\* C37: when a second sync() starts while the first is suspended at the
\* adapter's I/O and memory is not changed meanwhile, neither of the two fails
\* on an adapter that is ready, and once both have completed the target holds
\* the JSON text of the value of every in-memory entry but the one under
\* "__version__", which no sync() writes
C37_OverlappingSyncsSafe ==
  [][(last'.op \in {"sync", "tick", "overlap"} /\ AdapterReady) =>
       /\ last'.out \in {"ok", "pending"}
       /\ (syncP'.pc = "idle" /\ syncQ'.pc = "idle" /\ last'.out = "ok") =>
            \A i \in 1..Len(memoryMap) :
              memoryMap[i].k # VersionKey =>
                TextIn(disk', memoryMap[i].k) = Stringify(memoryMap[i].v)]_vars

\* the second sync() completed after the first, on a file store holding a
\* and b, a rewritten since the target last saw it
C37_Witness ==
  /\ last = Async("overlap", "ok", "")
  /\ adapter = "file" /\ syncP.pc = "idle" /\ syncQ.pc = "idle"
  /\ version = 2
  /\ MapGet(memoryMap, "a") = Num(2) /\ MapGet(memoryMap, "b") = Num(1)
  /\ TargetText("a") = Stringify(Num(2)) /\ TargetText("b") = Stringify(Num(1))
\* set("__version__", x) and delete("__version__") leave the version alone or
\* advance it by the ordinary increment
ReservedKeyKeepsVersion ==
  (last'.op \in {"set", "delete"} /\ last'.key = StrKey(VersionKey)) =>
    version' \in {version, BumpVersion(version)}

\* what a sync() step puts under "__version__" in the target is the version
\* the sync() started at, never the in-memory entry under that key
SyncWritesCounterOnly ==
  (last'.op \in {"sync", "tick"} /\
   TextIn(disk', VersionKey) \notin {TextIn(disk, VersionKey), JsonNone}) =>
    TextIn(disk', VersionKey) =
      Stringify(Num(IF syncP.pc = "idle" THEN version ELSE syncP.ver))

\* a step of init() leaves what get("__version__") returns as it was
InitHidesCounter ==
  last'.op = "init" =>
    GetOutcome(memoryMap', StrKey(VersionKey), "none") =
      GetOutcome(memoryMap, StrKey(VersionKey), "none")

\* C38: the key "__version__" never collides with user data: set and delete
\* under it change the version by the ordinary increment at most, sync() never
\* writes the in-memory entry under it, and init() does not make the
\* persisted counter readable through get("__version__")
C38_ReservedKeyNeverCollides ==
  [][ReservedKeyKeepsVersion /\ SyncWritesCounterOnly /\ InitHidesCounter]_vars

\* get("__version__") returned the persisted counter on a store whose caller
\* stored nothing
C38_Witness ==
  /\ last.op = "get" /\ last.key = StrKey(VersionKey)
  /\ last.out = "ok" /\ last.ret = Num(1)
  /\ hookCalls.update = 0 /\ nApplied = 0
  /\ inited /\ version = 1
\* a sync() that starts with something to write calls adapter.set
SyncCallsAdapter ==
  /\ last'.op \in {"sync", "tick"} /\ syncP.pc = "idle"
  /\ (version >= 0 \/ NextEntry(memoryMap, 0) # 0)

\* C39: on a store whose init() has not succeeded, a sync() that calls the
\* adapter fails, with a file adapter as with a sqlite one, and no step of a
\* sync() removes a key the target holds
C39_NotInitializedGuards ==
  [][~inited =>
       /\ SyncCallsAdapter => last'.out \in {"throw", "unhandled"}
       /\ last'.op \in {"sync", "tick"} =>
            \A k \in MapKeys(disk.data) : MapHas(disk'.data, k)]_vars

\* sync() completed on a second file store that never ran init(): the
\* document holds that store's version and nothing else
C39_Witness ==
  /\ last = Async("sync", "ok", "")
  /\ adapter = "file" /\ nStores = 2 /\ ~inited
  /\ enableVersioning /\ version = 0 /\ memoryMap = <<>>
  /\ disk.exists /\ MapKeys(disk.data) = {VersionKey}
====
